---- MODULE Spec2Model ----
(***************************************************************************)
(* Scroll-to-camera mapping of the TheEvents3D scene: the pause-zone       *)
(* transform, the scroll handler of CameraController and its frame tick.   *)
(*                                                                         *)
(* Numbers.  The program computes in IEEE doubles.  A number is modelled   *)
(* as a record [k, v]: k = "fin" with v an integer count of a fixed unit,  *)
(* or k = "nan" / "pinf" / "ninf".  The units are chosen so that every     *)
(* value the transform produces on the modelled scroll grid is an exact    *)
(* integer:                                                                *)
(*   raw progress       1 = RawUnit                                        *)
(*   adjusted progress  1 = PUnit                                          *)
(*   camera depth       1 = ZUnit   (ZUnit = PUnit / 7000)                 *)
(***************************************************************************)
EXTENDS Integers, Sequences, FiniteSets, TLC

\* ------------------------------------------------------------------------
\* Units of the fixed-point representation
\* ------------------------------------------------------------------------
RawUnit == 2 * 5 * 7 * 13 * 17          \* 15470 steps of raw progress in [0, 1]
PUnit == 2940 * 1000                    \* steps of (adjusted) progress in [0, 1]
TotalDepthRange == 7000                 \* scrollState.cameraZ = progress * 7000
ZUnit == PUnit \div TotalDepthRange     \* steps per unit of camera depth (420)

\* ------------------------------------------------------------------------
\* IEEE numbers: finite, NaN, +Infinity, -Infinity
\* ------------------------------------------------------------------------
Fin(n) == [k |-> "fin", v |-> n]
NaN == [k |-> "nan", v |-> 0]
PosInf == [k |-> "pinf", v |-> 0]
NegInf == [k |-> "ninf", v |-> 0]
IsNaN(x) == x.k = "nan"
IsFinite(x) == x.k = "fin"

Rank(x) == CASE x.k = "ninf" -> 0 [] x.k = "fin" -> 1 [] x.k = "pinf" -> 2 [] OTHER -> 3

\* x < y as the language compares numbers: false when either side is NaN.
FLt(x, y) ==
    /\ ~IsNaN(x)
    /\ ~IsNaN(y)
    /\ \/ Rank(x) < Rank(y)
       \/ IsFinite(x) /\ IsFinite(y) /\ x.v < y.v

\* Math.min / Math.max: NaN when either argument is NaN.
MathMin(x, y) == IF IsNaN(x) \/ IsNaN(y) THEN NaN ELSE IF FLt(y, x) THEN y ELSE x
MathMax(x, y) == IF IsNaN(x) \/ IsNaN(y) THEN NaN ELSE IF FLt(x, y) THEN y ELSE x

Abs(n) == IF n < 0 THEN -n ELSE n
Sign(n) == IF n < 0 THEN -1 ELSE IF n > 0 THEN 1 ELSE 0

\* a * b / c for c > 0, b >= 0, rounded toward zero, without forming a * b.
MulDiv(a, b, c) ==
    Sign(a) * ((Abs(a) \div c) * b + ((Abs(a) % c) * b) \div c)

\* scrolled / scrollableDistance of two pixel counts, in RawUnit steps:
\* 0/0 is NaN, n/0 is +-Infinity.
DivPixels(scrolled, scrollableDistance) ==
    IF scrollableDistance = 0
    THEN IF scrolled = 0 THEN NaN ELSE IF scrolled > 0 THEN PosInf ELSE NegInf
    ELSE Fin(Sign(scrolled) * Sign(scrollableDistance)
             * ((Abs(scrolled) * RawUnit) \div Abs(scrollableDistance)))

\* ------------------------------------------------------------------------
\* Pause zones
\* ------------------------------------------------------------------------
PauseAmount015 == 15 * (PUnit \div 1000)      \* pauseAmount 0.015

\* Mutant of PAUSE_ZONES: a zone at 900 follows the zone at 750 so closely
\* that their bands overlap.
PauseZonesOverlapping ==
    << [center |-> 750, pauseAmount |-> PauseAmount015],
       [center |-> 900, pauseAmount |-> PauseAmount015],
       [center |-> 2750, pauseAmount |-> PauseAmount015],
       [center |-> 3750, pauseAmount |-> PauseAmount015],
       [center |-> 4750, pauseAmount |-> PauseAmount015],
       [center |-> 5750, pauseAmount |-> PauseAmount015],
       [center |-> 6750, pauseAmount |-> PauseAmount015] >>

PAUSE_ZONES ==
    << [center |-> 750, pauseAmount |-> PauseAmount015],
       [center |-> 1750, pauseAmount |-> PauseAmount015],
       [center |-> 2750, pauseAmount |-> PauseAmount015],
       [center |-> 3750, pauseAmount |-> PauseAmount015],
       [center |-> 4750, pauseAmount |-> PauseAmount015],
       [center |-> 5750, pauseAmount |-> PauseAmount015],
       [center |-> 6750, pauseAmount |-> PauseAmount015] >>

ZoneMargin == PUnit \div 100                  \* the 0.01 on both sides of a zone
ExitRamp == PUnit \div 100                    \* the 0.01 the exit ramp climbs

RECURSIVE SumPause(_)
SumPause(i) == IF i = 0 THEN 0 ELSE SumPause(i - 1) + PAUSE_ZONES[i].pauseAmount

totalPauseAmount == SumPause(Len(PAUSE_ZONES))

\* Mutant of effectiveScrollRange: the pauses are not added to the range.
effectiveScrollRangeNoPause == (PUnit \div RawUnit) * RawUnit

effectiveScrollRange == PUnit + totalPauseAmount

zoneProgressCenter(zone) == zone.center * ZUnit       \* zone.center / 7000
pauseStart(zone) == zoneProgressCenter(zone) - ZoneMargin
pauseEnd(zone) == zoneProgressCenter(zone) + zone.pauseAmount + ZoneMargin

\* Mutant of InZoneValue: the exit ramp starts from pauseStart instead of
\* zoneProgressCenter.
InZoneValueExitFromStart(zone, x) ==
    LET distFromStart == x - pauseStart(zone)
        zoneWidth == pauseEnd(zone) - pauseStart(zone)
        w3 == (zoneWidth * 3) \div 10
        w7 == (zoneWidth * 7) \div 10
    IN  IF distFromStart < w3
        THEN pauseStart(zone) + (distFromStart * 3) \div 10
        ELSE IF distFromStart > w7
             THEN pauseStart(zone) + ((distFromStart - w7) * ExitRamp) \div w3
             ELSE zoneProgressCenter(zone)

\* Mutant of InZoneValue: the sub-bands are fractions of pauseAmount instead
\* of zoneWidth.
InZoneValueAmountBands(zone, x) ==
    LET distFromStart == x - pauseStart(zone)
        w3 == (zone.pauseAmount * 3) \div 10
        w7 == (zone.pauseAmount * 7) \div 10
    IN  IF distFromStart < w3
        THEN pauseStart(zone) + (distFromStart * 3) \div 10
        ELSE IF distFromStart > w7
             THEN zoneProgressCenter(zone) + ((distFromStart - w7) * ExitRamp) \div w3
             ELSE zoneProgressCenter(zone)

\* Mutant of InZoneValue: the sub-band tests are <= and >= instead of < and >.
InZoneValueInclusive(zone, x) ==
    LET distFromStart == x - pauseStart(zone)
        zoneWidth == pauseEnd(zone) - pauseStart(zone)
        w3 == (zoneWidth * 3) \div 10
        w7 == (zoneWidth * 7) \div 10
    IN  IF distFromStart <= w3
        THEN pauseStart(zone) + (distFromStart * 3) \div 10
        ELSE IF distFromStart >= w7
             THEN zoneProgressCenter(zone) + ((distFromStart - w7) * ExitRamp) \div w3
             ELSE zoneProgressCenter(zone)

\* Mutant of InZoneValue: the entering band advances at 3 times the
\* distance from pauseStart instead of 0.3 times.
InZoneValueSteepEntry(zone, x) ==
    LET distFromStart == x - pauseStart(zone)
        zoneWidth == pauseEnd(zone) - pauseStart(zone)
        w3 == (zoneWidth * 3) \div 10
        w7 == (zoneWidth * 7) \div 10
    IN  IF distFromStart < w3
        THEN pauseStart(zone) + distFromStart * 3
        ELSE IF distFromStart > w7
             THEN zoneProgressCenter(zone) + ((distFromStart - w7) * ExitRamp) \div w3
             ELSE zoneProgressCenter(zone)

\* The value returned from inside a zone's band (adjustedProgress minus
\* accumulatedPause = x, pauseStart <= x <= pauseEnd).
InZoneValue(zone, x) ==
    LET distFromStart == x - pauseStart(zone)
        zoneWidth == pauseEnd(zone) - pauseStart(zone)
        w3 == (zoneWidth * 3) \div 10
        w7 == (zoneWidth * 7) \div 10
    IN  IF distFromStart < w3
        THEN pauseStart(zone) + (distFromStart * 3) \div 10
        ELSE IF distFromStart > w7
             THEN zoneProgressCenter(zone) + ((distFromStart - w7) * ExitRamp) \div w3
             ELSE zoneProgressCenter(zone)

\* The for-loop over PAUSE_ZONES from zone i on.  The result records the
\* returned value, accumulatedPause at the return and the zone that returned
\* from inside the loop (0: the final return after the loop).
RECURSIVE ScanZones(_, _, _)
ScanZones(i, adjustedProgress, accumulatedPause) ==
    IF i > Len(PAUSE_ZONES)
    THEN [value |-> IF adjustedProgress - accumulatedPause > PUnit
                    THEN PUnit
                    ELSE adjustedProgress - accumulatedPause,
          accumulatedPause |-> accumulatedPause,
          zone |-> 0]
    ELSE LET zone == PAUSE_ZONES[i]
             x == adjustedProgress - accumulatedPause
         IN  IF x >= pauseStart(zone) /\ x <= pauseEnd(zone)
             THEN [value |-> InZoneValue(zone, x),
                   accumulatedPause |-> accumulatedPause,
                   zone |-> i]
             ELSE IF x > pauseEnd(zone)
                  THEN ScanZones(i + 1, adjustedProgress, accumulatedPause + zone.pauseAmount)
                  ELSE ScanZones(i + 1, adjustedProgress, accumulatedPause)

\* Mutant of ScaleRaw: the raw progress is not scaled by effectiveScrollRange.
ScaleRawUnscaled(rawSteps) == rawSteps * (PUnit \div RawUnit)

\* rawProgress * effectiveScrollRange, from RawUnit steps to PUnit steps.
ScaleRaw(rawSteps) == rawSteps * (effectiveScrollRange \div RawUnit)

\* The loop of applyScrollPauses on a finite raw progress.
PauseScan(rawSteps) == ScanZones(1, ScaleRaw(rawSteps), 0)

\* applyScrollPauses(rawProgress).  Every comparison with NaN is false, so a
\* NaN argument falls through the loop to Math.min(1, NaN) = NaN.
applyScrollPauses(rawProgress) ==
    IF IsNaN(rawProgress)
    THEN NaN
    ELSE Fin(PauseScan(rawProgress.v).value)

\* ------------------------------------------------------------------------
\* Easing and the windowed camera targets
\* ------------------------------------------------------------------------
EaseUnit == 10 * 100                    \* steps of an eased fraction in [0, 1]
DegUnit == EaseUnit                     \* steps per degree of fov, per unit of y
TwoPi == 6283                           \* Math.PI * 2 in steps of 1/EaseUnit rad

Cube(u) == (((u * u) \div EaseUnit) * u) \div EaseUnit

\* easeInOutCubic(t), t and the result in EaseUnit steps.
easeInOutCubic(t) ==
    IF 2 * t < EaseUnit
    THEN 4 * Cube(t)
    ELSE EaseUnit - Cube(2 * EaseUnit - 2 * t) \div 2

Depth(n) == Fin(n * ZUnit)              \* the literal camera depth n

\* (z - low) / span as an eased-fraction argument, z a finite depth.
WindowFraction(z, low, span) == ((z.v - low * ZUnit) * EaseUnit) \div (span * ZUnit)

FLe(x, y) == FLt(x, y) \/ (IsFinite(x) /\ IsFinite(y) /\ x.v = y.v) \/ (x.k = y.k /\ x.k \in {"pinf", "ninf"})
FGe(x, y) == FLe(y, x)
FGt(x, y) == FLt(y, x)

\* Mutant of FovTarget: the dolly zoom opens by 40 degrees instead of 30.
FovTargetPeak90(z) ==
    IF FGe(z, Depth(4100)) /\ FLe(z, Depth(4400))
    THEN Fin(50 * DegUnit + 40 * easeInOutCubic(WindowFraction(z, 4100, 300)))
    ELSE IF FGt(z, Depth(4400)) /\ FLt(z, Depth(4700))
         THEN Fin(90 * DegUnit - 40 * easeInOutCubic(WindowFraction(z, 4400, 300)))
         ELSE Fin(50 * DegUnit)

\* "Smooth dolly zoom FOV (Z: 4100-4400)"
FovTarget(z) ==
    IF FGe(z, Depth(4100)) /\ FLe(z, Depth(4400))
    THEN Fin(50 * DegUnit + 30 * easeInOutCubic(WindowFraction(z, 4100, 300)))
    ELSE IF FGt(z, Depth(4400)) /\ FLt(z, Depth(4700))
         THEN Fin(80 * DegUnit - 30 * easeInOutCubic(WindowFraction(z, 4400, 300)))
         ELSE Fin(50 * DegUnit)

\* Mutant of YTarget: past the falling window the target goes back to 0.
YTargetReverting(z) ==
    IF FGe(z, Depth(5100)) /\ FLe(z, Depth(5400))
    THEN Fin(-500 * easeInOutCubic(WindowFraction(z, 5100, 300)))
    ELSE Fin(0)

\* "Smooth falling Y movement (Z: 5100-5400)"
YTarget(z) ==
    IF FGe(z, Depth(5100)) /\ FLe(z, Depth(5400))
    THEN Fin(-500 * easeInOutCubic(WindowFraction(z, 5100, 300)))
    ELSE IF FGt(z, Depth(5400))
         THEN Fin(-500 * DegUnit)
         ELSE Fin(0)

\* "Smooth glitch spin (Z: 6300-6450)"
RotationTarget(z) ==
    IF FGe(z, Depth(6300)) /\ FLe(z, Depth(6450))
    THEN Fin((easeInOutCubic(WindowFraction(z, 6300, 150)) * TwoPi) \div EaseUnit)
    ELSE IF FGt(z, Depth(6450)) /\ FLt(z, Depth(6600))
         THEN Fin((TwoPi * (EaseUnit - easeInOutCubic(WindowFraction(z, 6450, 150)))) \div EaseUnit)
         ELSE Fin(0)

\* Mutant of SectionOf: the breakpoints are tested with <= instead of <.
SectionOfInclusive(z) ==
    IF FLe(z, Depth(500)) THEN "portal"
    ELSE IF FLe(z, Depth(1000)) THEN "eventX"
    ELSE IF FLe(z, Depth(1500)) THEN "vortex"
    ELSE IF FLe(z, Depth(2000)) THEN "battle"
    ELSE IF FLe(z, Depth(2500)) THEN "curtain"
    ELSE IF FLe(z, Depth(3000)) THEN "spotlight"
    ELSE IF FLe(z, Depth(3500)) THEN "paintTunnel"
    ELSE IF FLe(z, Depth(4000)) THEN "mural"
    ELSE IF FLe(z, Depth(4500)) THEN "dollyZoom"
    ELSE IF FLe(z, Depth(5000)) THEN "unveil"
    ELSE IF FLe(z, Depth(5500)) THEN "falling"
    ELSE IF FLe(z, Depth(6000)) THEN "beatTheStreet"
    ELSE IF FLe(z, Depth(6500)) THEN "glitch"
    ELSE "parody"

\* The if / else-if chain that names the section of a camera depth.
SectionOf(z) ==
    IF FLt(z, Depth(500)) THEN "portal"
    ELSE IF FLt(z, Depth(1000)) THEN "eventX"
    ELSE IF FLt(z, Depth(1500)) THEN "vortex"
    ELSE IF FLt(z, Depth(2000)) THEN "battle"
    ELSE IF FLt(z, Depth(2500)) THEN "curtain"
    ELSE IF FLt(z, Depth(3000)) THEN "spotlight"
    ELSE IF FLt(z, Depth(3500)) THEN "paintTunnel"
    ELSE IF FLt(z, Depth(4000)) THEN "mural"
    ELSE IF FLt(z, Depth(4500)) THEN "dollyZoom"
    ELSE IF FLt(z, Depth(5000)) THEN "unveil"
    ELSE IF FLt(z, Depth(5500)) THEN "falling"
    ELSE IF FLt(z, Depth(6000)) THEN "beatTheStreet"
    ELSE IF FLt(z, Depth(6500)) THEN "glitch"
    ELSE "parody"

\* Mutant of TimesDepthRange: the depth range of the other experience, 7500.
TimesDepthRange7500(progress) ==
    IF IsNaN(progress)
    THEN NaN
    ELSE Fin(MulDiv(progress.v, 7500, TotalDepthRange))

\* progress * 7000: PUnit steps of progress to ZUnit steps of depth.
TimesDepthRange(progress) ==
    IF IsNaN(progress)
    THEN NaN
    ELSE Fin(progress.v * ((TotalDepthRange * ZUnit) \div PUnit))

\* Math.max(0, Math.min(1, scrolled / scrollableDistance))
RawProgress(scrolled, scrollableDistance) ==
    MathMax(Fin(0), MathMin(Fin(RawUnit), DivPixels(scrolled, scrollableDistance)))

\* Mutant of VelocityOf: the elapsed time is left in milliseconds.
VelocityOfPerMs(progress, last, elapsedMs) ==
    IF IsNaN(progress) \/ IsNaN(last)
    THEN NaN
    ELSE Fin(MulDiv(progress.v - last.v, 1, elapsedMs))

\* (progress - lastProgress) / deltaTime, deltaTime = elapsedMs / 1000 > 0,
\* in PUnit steps per second.
VelocityOf(progress, last, elapsedMs) ==
    IF IsNaN(progress) \/ IsNaN(last)
    THEN NaN
    ELSE Fin(MulDiv(progress.v - last.v, 1000, elapsedMs))

\* ------------------------------------------------------------------------
\* Frame-rate independent smoothing
\* ------------------------------------------------------------------------
LerpUnit == 256 * 256                   \* steps of a lerp factor in [0, 1]
Smoothing == 80                         \* smoothing = 0.08, in thousandths
RotationSmoothing == 60                 \* rotationSmoothing = 0.06
FovSmoothing == 40                      \* fovSmoothing = 0.04

\* The series 1 - x + x^2/2! - ... of Math.exp(-x), x in thousandths and
\* x >= 0, the result in LerpUnit steps; summed until a term vanishes.
RECURSIVE ExpSeries(_, _, _, _)
ExpSeries(x, k, term, acc) ==
    IF term = 0
    THEN acc
    ELSE LET next == (term * x) \div (1000 * k)
         IN  ExpSeries(x, k + 1, next,
                       IF k % 2 = 1 THEN acc - next ELSE acc + next)

\* Math.exp(-x), x in thousandths and x >= 0, in LerpUnit steps: the series
\* up to x = 1, and exp(-x) = exp(-x/2) * exp(-x/2) beyond.
\* Past x = 16 the value is below one LerpUnit step.
RECURSIVE ExpNeg(_)
ExpNeg(x) ==
    IF x <= 1000
    THEN ExpSeries(x, 1, LerpUnit, LerpUnit)
    ELSE IF x > 16 * 1000
         THEN 0
         ELSE (ExpNeg(x \div 2) * ExpNeg(x - x \div 2)) \div LerpUnit

\* Mutant of LerpFactor: the exponent is dropped, 1 - Math.exp(0).
LerpFactorFrozen(smoothing, delta) == LerpUnit - ExpNeg(0)

\* 1 - Math.exp(-smoothing * delta * 60), delta in sixtieths of a second.
LerpFactor(smoothing, delta) == LerpUnit - ExpNeg(smoothing * delta)

\* a * factor for a factor of 0 .. LerpUnit steps, rounded toward zero; the
\* product is formed in three parts so that no part leaves 32 bits.
TimesFactor(a, factor) ==
    Sign(a) * ((Abs(a) \div LerpUnit) * factor
               + (((Abs(a) % LerpUnit) \div 256) * factor
                  + (((Abs(a) % LerpUnit) % 256) * factor) \div 256) \div 256)

\* Mutant of Lerp: the step is added to the target instead of the current
\* value.
LerpPastTarget(current, target, factor) ==
    IF IsNaN(current) \/ IsNaN(target)
    THEN NaN
    ELSE Fin(target.v + TimesFactor(target.v - current.v, factor))

\* Mutant of Lerp: the step adds a quarter of the remaining distance on top
\* of the damped part, so a factor near 1 carries the value past the target.
LerpExtrapolating(current, target, factor) ==
    IF IsNaN(current) \/ IsNaN(target)
    THEN NaN
    ELSE Fin(current.v + TimesFactor(target.v - current.v, factor)
                       + (target.v - current.v) \div 4)

\* current + (target - current) * factor
Lerp(current, target, factor) ==
    IF IsNaN(current) \/ IsNaN(target)
    THEN NaN
    ELSE Fin(current.v + TimesFactor(target.v - current.v, factor))

\* smoothDamp(current, target, smoothing, delta): smoothing in thousandths,
\* delta in sixtieths of a second.
smoothDamp(current, target, smoothing, delta) ==
    Lerp(current, target, LerpFactor(smoothing, delta))

\* ------------------------------------------------------------------------
\* Scene opacity
\* ------------------------------------------------------------------------
OpacityUnit == 100 * 100                \* steps of an opacity in [0, 1]
Threshold001 == OpacityUnit \div 100    \* the 0.01 below which a scene is hidden

\* easeOutQuart(t) = 1 - Math.pow(1 - t, 4), t and the result in OpacityUnit
\* steps.
easeOutQuart(t) ==
    LET u == OpacityUnit - t
        u2 == (u * u) \div OpacityUnit
    IN  OpacityUnit - (u2 * u2) \div OpacityUnit

\* distance / fadeRange in OpacityUnit steps, distance in ZUnit steps and
\* fadeRange a depth; both units are divided by 20 first.
DistanceFraction(distance, fadeRange) ==
    (distance * (OpacityUnit \div 20)) \div (fadeRange * (ZUnit \div 20))

\* Mutant of getSceneOpacity: t is distance / fadeRange instead of
\* 1 - distance / fadeRange.
getSceneOpacityInverted(cameraZ, sceneZ, fadeRange) ==
    IF IsNaN(cameraZ)
    THEN NaN
    ELSE IF ~IsFinite(cameraZ)
         THEN Fin(0)
         ELSE LET distance == Abs(cameraZ.v - sceneZ * ZUnit)
              IN  IF distance > fadeRange * ZUnit
                  THEN Fin(0)
                  ELSE Fin(easeOutQuart(DistanceFraction(distance, fadeRange)))

\* getSceneOpacity(cameraZ, sceneZ, fadeRange): cameraZ a number in ZUnit
\* steps, sceneZ and fadeRange literal depths.  A NaN camera depth fails the
\* test distance > fadeRange and comes out of easeOutQuart as NaN.
getSceneOpacity(cameraZ, sceneZ, fadeRange) ==
    IF IsNaN(cameraZ)
    THEN NaN
    ELSE IF ~IsFinite(cameraZ)
         THEN Fin(0)
         ELSE LET distance == Abs(cameraZ.v - sceneZ * ZUnit)
              IN  IF distance > fadeRange * ZUnit
                  THEN Fin(0)
                  ELSE Fin(easeOutQuart(OpacityUnit - DistanceFraction(distance, fadeRange)))

\* ParticleSystem's target opacity: baseOpacity * easeOutQuart(1 - distance /
\* range) while distance < range, else 0, with centerZ = (zStart + zEnd) / 2
\* and range = (zEnd - zStart) / 2 + 400.  A NaN camera depth fails
\* distance < range and gives 0.
ParticleTargetOpacity(cameraZ, zStart, zEnd, baseOpacity) ==
    IF ~IsFinite(cameraZ)
    THEN Fin(0)
    ELSE LET centerZ == (zStart + zEnd) \div 2
             range == (zEnd - zStart) \div 2 + 400
             distance == Abs(cameraZ.v - centerZ * ZUnit)
         IN  IF distance < range * ZUnit
             THEN Fin((baseOpacity
                       * easeOutQuart(OpacityUnit - DistanceFraction(distance, range)))
                      \div OpacityUnit)
             ELSE Fin(0)

\* ------------------------------------------------------------------------
\* State
\* ------------------------------------------------------------------------
VARIABLES
    scrollState,        \* the module-level ScrollState object
    containerElement,   \* "null" or "div"
    lastScrollTime,     \* ms, performance.now() of the last handled scroll
    lastProgress,       \* progress of the last handled scroll
    targetZ, targetY, targetFov, targetRotationZ,       \* refs of CameraController
    currentZ, currentY, currentFov, currentRotationZ,   \* refs of CameraController
    camera,             \* the canvas camera's transform
    stage,              \* "unmounted", "shell" (TheEvents3D mounted), "live" (CameraController
                        \* mounted), "closing" (container released, listener still registered)
    frames,             \* frame ticks so far
    lastRead,           \* what the last handleScroll read: the page and the clock, and
                        \* whether the last invocation returned at its container test
    probe,              \* two raw progress values and their adjusted values
    sweep,              \* a forward sweep: raw position and the sections seen
    scene,              \* the scene drivers' refs: damped opacity, visible flag, work done
    damp,               \* smoothDamp fed back on itself: current, target, rate, delta
    fade,               \* getSceneOpacity on both sides of a scene depth
    cinematic           \* CinematicScrollExperience: its controller's targets and Lenis loops

vars == << scrollState, containerElement, lastScrollTime, lastProgress,
           targetZ, targetY, targetFov, targetRotationZ,
           currentZ, currentY, currentFov, currentRotationZ,
           camera, stage, frames, lastRead, probe, sweep,
           scene, damp, fade, cinematic >>

handlerVars == << scrollState, lastScrollTime, lastProgress,
                  targetZ, targetY, targetFov, targetRotationZ, lastRead >>
currentVars == << currentZ, currentY, currentFov, currentRotationZ >>

\* ------------------------------------------------------------------------
\* Bounds and input sets
\* ------------------------------------------------------------------------
MaxTime == 8                           \* the clock stops at MaxTime ms
MaxFrames == 2                          \* frame ticks in a behaviour
MaxGap == 3                             \* probe: r2 - r1 up to MaxGap raw steps, or r2 coarse
MaxSweepStep == 999                     \* sweep: the longest step, in raw steps

ElapsedTimes == {0, 8}                  \* ms between two handled scrolls
FrameDeltas == {0, 1}                   \* frame delta, in sixtieths of a second
InnerHeight == 30 * 30                  \* window.innerHeight of the modelled viewport
\* -rect.top over a container with RawUnit pixels to scroll: above the
\* container, section and window boundaries, zone bands, past the end
ScrollOffsets == {0, 998, 1000, 1560, 9340, 11550, 14010, RawUnit + 30}
\* << rect.top, offsetHeight >>: a tall container, one as tall as the
\* viewport (nothing to scroll) and one shorter than the viewport
Geometries ==
    {<< -s, InnerHeight + RawUnit >> : s \in ScrollOffsets}
        \cup {<< -s, InnerHeight >> : s \in {-100, 0, 1000}}
        \cup {<< -s, InnerHeight - 221 >> : s \in {-100, 1000}}

NoRead == [handled |-> FALSE, top |-> 0, offsetHeight |-> 0, innerHeight |-> 0, elapsedMs |-> 0,
           returnedEarly |-> FALSE]
NoScan == [value |-> 0, accumulatedPause |-> 0, zone |-> 0]
NoProbe == [r1 |-> 0, r2 |-> 0, a1 |-> NaN, a2 |-> NaN, t1 |-> NoScan, t2 |-> NoScan, applied |-> FALSE]
NoSweep == [raw |-> 0, visited |-> << >>]
\* The scene drivers' refs as their components construct them.
NoScene ==
    [particles |-> [currentOpacity |-> Fin(0), visible |-> TRUE, integrated |-> FALSE],
     confetti |-> [currentOpacity |-> Fin(0), rewrote |-> FALSE],
     fadeGroup |-> [currentOpacity |-> Fin(0), visible |-> TRUE, traversed |-> FALSE],
     ticks |-> 0]
NoDamp == [current |-> Fin(0), previous |-> Fin(0), target |-> Fin(0),
           smoothing |-> 0, delta |-> 0, start |-> Fin(0), steps |-> 0]
NoFade == [sceneZ |-> 0, k |-> 0, fadeRange |-> 0, above |-> NaN, below |-> NaN,
           applied |-> FALSE]
\* CinematicScrollExperience before its first mount: the module-level
\* scrollState, the controller's target refs, no Lenis instance created, no
\* animation-frame callback run.
NoCinematic ==
    [stage |-> "unmounted",
     scrollState |-> [progress |-> Fin(0), cameraZ |-> Fin(0), currentSection |-> "portal"],
     targetZ |-> Fin(0), targetY |-> Fin(0),
     targetFov |-> Fin(50 * DegUnit), targetRotationZ |-> Fin(0),
     lenisCreated |-> 0, lenisDestroyed |-> 0,
     lastRaf |-> [instance |-> 0, destroyed |-> FALSE]]

\* ------------------------------------------------------------------------
\* Initial state: the module is loaded, nothing is mounted
\* ------------------------------------------------------------------------
InitController ==
    /\ scrollState = [progress |-> Fin(0), cameraZ |-> Fin(0),
                      currentSection |-> "portal", velocity |-> Fin(0)]
    /\ containerElement = "null"
    /\ lastScrollTime = 0
    /\ lastProgress = Fin(0)
    /\ targetZ = Fin(0) /\ targetY = Fin(0)
    /\ targetFov = Fin(50 * DegUnit) /\ targetRotationZ = Fin(0)
    /\ currentZ = Fin(0) /\ currentY = Fin(0)
    /\ currentFov = Fin(50 * DegUnit) /\ currentRotationZ = Fin(0)
    /\ camera = [positionZ |-> Fin(0), positionY |-> Fin(0),
                 rotationZ |-> Fin(0), fov |-> Fin(50 * DegUnit)]
    /\ stage = "unmounted"
    /\ frames = 0
    /\ lastRead = NoRead

Init ==
    /\ InitController
    /\ probe = NoProbe
    /\ sweep = NoSweep
    /\ scene = NoScene
    /\ damp = NoDamp
    /\ fade = NoFade
    /\ cinematic = NoCinematic

\* Mutant of handleScroll: performance.now() is read and stored in
\* lastScrollTime before the container test.
handleScrollLateGuard(now, top, offsetHeight, innerHeight) ==
    IF containerElement = "null"
    THEN /\ lastScrollTime' = now
         /\ UNCHANGED << scrollState, lastProgress,
                         targetZ, targetY, targetFov, targetRotationZ >>
         /\ lastRead' = [lastRead EXCEPT !.returnedEarly = TRUE]
    ELSE LET scrollableDistance == offsetHeight - innerHeight
             scrolled == -top
             elapsedMs == now - lastScrollTime
         IN  \E rawProgress \in {RawProgress(scrolled, scrollableDistance)} :
             \E progress \in {applyScrollPauses(rawProgress)} :
             \E z \in {TimesDepthRange(progress)} :
                /\ scrollState' = [progress |-> progress,
                                   cameraZ |-> z,
                                   currentSection |-> SectionOf(z),
                                   velocity |-> IF elapsedMs > 0
                                                THEN VelocityOf(progress, lastProgress, elapsedMs)
                                                ELSE Fin(0)]
                /\ lastScrollTime' = now
                /\ lastProgress' = progress
                /\ targetZ' = z
                /\ targetFov' = FovTarget(z)
                /\ targetY' = YTarget(z)
                /\ targetRotationZ' = RotationTarget(z)
                /\ lastRead' = [handled |-> TRUE, top |-> top,
                                offsetHeight |-> offsetHeight, innerHeight |-> innerHeight,
                                elapsedMs |-> elapsedMs, returnedEarly |-> FALSE]

\* Mutant of handleScroll: the vertical-offset branch has no final else, so
\* targetY keeps the value of an earlier event when z is below 5100.
handleScrollKeepingY(now, top, offsetHeight, innerHeight) ==
    IF containerElement = "null"
    THEN /\ UNCHANGED << scrollState, lastScrollTime, lastProgress,
                         targetZ, targetY, targetFov, targetRotationZ >>
         /\ lastRead' = [lastRead EXCEPT !.returnedEarly = TRUE]
    ELSE LET scrollableDistance == offsetHeight - innerHeight
             scrolled == -top
             elapsedMs == now - lastScrollTime
         IN  \E rawProgress \in {RawProgress(scrolled, scrollableDistance)} :
             \E progress \in {applyScrollPauses(rawProgress)} :
             \E z \in {TimesDepthRange(progress)} :
                /\ scrollState' = [progress |-> progress,
                                   cameraZ |-> z,
                                   currentSection |-> SectionOf(z),
                                   velocity |-> IF elapsedMs > 0
                                                THEN VelocityOf(progress, lastProgress, elapsedMs)
                                                ELSE Fin(0)]
                /\ lastScrollTime' = now
                /\ lastProgress' = progress
                /\ targetZ' = z
                /\ targetFov' = FovTarget(z)
                /\ targetY' = IF FGe(z, Depth(5100)) THEN YTarget(z) ELSE targetY
                /\ targetRotationZ' = RotationTarget(z)
                /\ lastRead' = [handled |-> TRUE, top |-> top,
                                offsetHeight |-> offsetHeight, innerHeight |-> innerHeight,
                                elapsedMs |-> elapsedMs, returnedEarly |-> FALSE]

\* ------------------------------------------------------------------------
\* handleScroll
\* ------------------------------------------------------------------------
\* One invocation of handleScroll at time now, with the container's
\* rect.top, offsetHeight and window.innerHeight as read by the handler.
handleScroll(now, top, offsetHeight, innerHeight) ==
    IF containerElement = "null"
    THEN /\ UNCHANGED << scrollState, lastScrollTime, lastProgress,
                         targetZ, targetY, targetFov, targetRotationZ >>
         /\ lastRead' = [lastRead EXCEPT !.returnedEarly = TRUE]
    ELSE LET scrollableDistance == offsetHeight - innerHeight
             scrolled == -top
             elapsedMs == now - lastScrollTime
         IN  \E rawProgress \in {RawProgress(scrolled, scrollableDistance)} :
             \E progress \in {applyScrollPauses(rawProgress)} :
             \E z \in {TimesDepthRange(progress)} :
                /\ scrollState' = [progress |-> progress,
                                   cameraZ |-> z,
                                   currentSection |-> SectionOf(z),
                                   velocity |-> IF elapsedMs > 0
                                                THEN VelocityOf(progress, lastProgress, elapsedMs)
                                                ELSE Fin(0)]
                /\ lastScrollTime' = now
                /\ lastProgress' = progress
                /\ targetZ' = z
                /\ targetFov' = FovTarget(z)
                /\ targetY' = YTarget(z)
                /\ targetRotationZ' = RotationTarget(z)
                /\ lastRead' = [handled |-> TRUE, top |-> top,
                                offsetHeight |-> offsetHeight, innerHeight |-> innerHeight,
                                elapsedMs |-> elapsedMs, returnedEarly |-> FALSE]

\* ------------------------------------------------------------------------
\* Actions
\* ------------------------------------------------------------------------
\* TheEvents3D's effect: setContainerRef(containerRef.current).
MountExperience ==
    /\ stage = "unmounted"
    /\ stage' = "shell"
    /\ containerElement' = "div"
    /\ UNCHANGED << handlerVars, currentVars, camera, frames, probe, sweep, scene, damp, fade, cinematic >>

\* The canvas commits CameraController: fresh refs, a fresh camera, the
\* scroll listener and the first handleScroll().
DoMountController(now, top, offsetHeight, innerHeight) ==
    /\ stage = "shell"
    /\ stage' = "live"
    /\ currentZ' = Fin(0) /\ currentY' = Fin(0)
    /\ currentFov' = Fin(50 * DegUnit) /\ currentRotationZ' = Fin(0)
    /\ camera' = [positionZ |-> Fin(0), positionY |-> Fin(0),
                  rotationZ |-> Fin(0), fov |-> Fin(50 * DegUnit)]
    /\ handleScroll(now, top, offsetHeight, innerHeight)
    /\ UNCHANGED << containerElement, frames, probe, damp, fade, cinematic >>

\* Mutant of ListenerRegistered: the cleanup does not remove the listener,
\* which stays registered once a controller has been mounted.
ListenerNeverRemoved == stage \in {"live", "closing"} \/ lastRead.handled

\* handleScroll is registered on the window from CameraController's effect
\* to its cleanup.
ListenerRegistered == stage \in {"live", "closing"}

\* Mutant of DoScroll: the handler also writes the new depth target straight
\* into the camera position.
DoScrollSnappingCamera(now, top, offsetHeight, innerHeight) ==
    /\ ListenerRegistered
    /\ handleScroll(now, top, offsetHeight, innerHeight)
    /\ camera' = [camera EXCEPT !.positionZ = targetZ']
    /\ UNCHANGED << containerElement, currentVars, stage, frames, probe, damp, fade, cinematic >>

\* A scroll event reaches the registered listener.
DoScroll(now, top, offsetHeight, innerHeight) ==
    /\ ListenerRegistered
    /\ handleScroll(now, top, offsetHeight, innerHeight)
    /\ UNCHANGED << containerElement, currentVars, camera, stage, frames, probe, damp, fade, cinematic >>

MountController ==
    \E dt \in ElapsedTimes, g \in Geometries :
        /\ lastScrollTime + dt <= MaxTime
        /\ DoMountController(lastScrollTime + dt, g[1], g[2], InnerHeight)
        /\ UNCHANGED << sweep, scene >>

\* The window dispatches a scroll event: handleScroll runs if it is
\* registered, and nothing happens otherwise.
ScrollEvent ==
    \E dt \in ElapsedTimes, g \in Geometries :
        /\ lastScrollTime + dt <= MaxTime
        /\ IF ListenerRegistered
           THEN DoScroll(lastScrollTime + dt, g[1], g[2], InnerHeight)
           ELSE UNCHANGED << handlerVars, containerElement, currentVars, camera, stage,
                             frames, probe, damp, fade, cinematic >>
        /\ UNCHANGED << sweep, scene >>

\* Mutant of DoFrame: the frame tick also stores the damped depth in
\* scrollState.cameraZ.
DoFrameWritingState(delta) ==
    /\ stage = "live"
    /\ currentZ' = Lerp(currentZ, targetZ, LerpFactor(Smoothing, delta))
    /\ currentY' = Lerp(currentY, targetY, LerpFactor((Smoothing * 7) \div 10, delta))
    /\ currentRotationZ' = Lerp(currentRotationZ, targetRotationZ,
                                LerpFactor(RotationSmoothing, delta))
    /\ currentFov' = Lerp(currentFov, targetFov, LerpFactor(FovSmoothing, delta))
    /\ camera' = [positionZ |-> currentZ', positionY |-> currentY',
                  rotationZ |-> currentRotationZ', fov |-> currentFov']
    /\ scrollState' = [scrollState EXCEPT !.cameraZ = currentZ']
    /\ UNCHANGED << lastScrollTime, lastProgress, targetZ, targetY, targetFov,
                    targetRotationZ, lastRead, containerElement, stage, probe, sweep,
                    damp, fade, cinematic >>

\* The useFrame callback of CameraController for a frame delta: damp the
\* four scalars toward their targets, write the camera.
DoFrame(delta) ==
    /\ stage = "live"
    /\ LET zLerp == LerpFactor(Smoothing, delta)
           yLerp == LerpFactor((Smoothing * 7) \div 10, delta)
           rotLerp == LerpFactor(RotationSmoothing, delta)
           fovLerp == LerpFactor(FovSmoothing, delta)
       IN  /\ currentZ' = Lerp(currentZ, targetZ, zLerp)
           /\ currentY' = Lerp(currentY, targetY, yLerp)
           /\ currentRotationZ' = Lerp(currentRotationZ, targetRotationZ, rotLerp)
           /\ currentFov' = Lerp(currentFov, targetFov, fovLerp)
    /\ camera' = [positionZ |-> currentZ', positionY |-> currentY',
                  rotationZ |-> currentRotationZ', fov |-> currentFov']
    /\ UNCHANGED << handlerVars, containerElement, stage, probe, sweep, damp, fade, cinematic >>

\* A rendered frame of the canvas, as far as CameraController goes.
Frame ==
    /\ frames < MaxFrames
    /\ \E delta \in FrameDeltas : DoFrame(delta)
    /\ frames' = frames + 1
    /\ UNCHANGED scene

\* TheEvents3D's effect cleanup: setContainerRef(null).  The canvas tears
\* its own tree down separately, so CameraController's listener can outlive
\* the container reference for a while ("closing").
UnmountExperience ==
    /\ stage \in {"shell", "live"}
    /\ stage' = IF stage = "live" THEN "closing" ELSE "unmounted"
    /\ containerElement' = "null"
    /\ UNCHANGED << handlerVars, currentVars, camera, frames, probe, sweep, scene, damp, fade, cinematic >>

\* CameraController's effect cleanup: the scroll listener is removed.  The
\* refs and the camera die with their components; they are kept at their
\* construction values until the next mount creates them again.
UnmountController ==
    /\ stage = "closing"
    /\ stage' = "unmounted"
    /\ targetZ' = Fin(0) /\ targetY' = Fin(0)
    /\ targetFov' = Fin(50 * DegUnit) /\ targetRotationZ' = Fin(0)
    /\ currentZ' = Fin(0) /\ currentY' = Fin(0)
    /\ currentFov' = Fin(50 * DegUnit) /\ currentRotationZ' = Fin(0)
    /\ camera' = [positionZ |-> Fin(0), positionY |-> Fin(0),
                  rotationZ |-> Fin(0), fov |-> Fin(50 * DegUnit)]
    /\ UNCHANGED << scrollState, containerElement, lastScrollTime, lastProgress,
                    lastRead, frames, probe, sweep, scene, damp, fade, cinematic >>

Next ==
    \/ MountExperience
    \/ MountController
    \/ ScrollEvent
    \/ Frame
    \/ UnmountExperience
    \/ UnmountController

Spec == Init /\ [][Next]_vars

\* ------------------------------------------------------------------------
\* applyScrollPauses on its own: two raw progress values r1 <= r2
\* ------------------------------------------------------------------------
CoarseRaw == {k * (RawUnit \div 10) : k \in 0 .. 10}

ProbeInit ==
    /\ InitController
    /\ sweep = NoSweep
    /\ scene = NoScene
    /\ damp = NoDamp
    /\ fade = NoFade
    /\ cinematic = NoCinematic
    /\ \E a \in 0 .. RawUnit :
       \E b \in {c \in a .. a + MaxGap : c <= RawUnit} \cup {c \in CoarseRaw : c >= a} :
          probe = [NoProbe EXCEPT !.r1 = a, !.r2 = b]

ApplyPauses ==
    /\ ~probe.applied
    /\ probe' = [probe EXCEPT !.a1 = applyScrollPauses(Fin(probe.r1)),
                              !.a2 = applyScrollPauses(Fin(probe.r2)),
                              !.t1 = PauseScan(probe.r1),
                              !.t2 = PauseScan(probe.r2),
                              !.applied = TRUE]
    /\ UNCHANGED << handlerVars, currentVars, containerElement, camera, stage, frames, sweep,
                    scene, damp, fade, cinematic >>

SpecPause == ProbeInit /\ [][ApplyPauses]_vars

\* ------------------------------------------------------------------------
\* A forward sweep of the mounted experience from raw progress 0 to 1 at a
\* constant speed of one raw step per millisecond, sampled by scroll events
\* that are 1, 7 or MaxSweepStep raw steps apart
\* ------------------------------------------------------------------------
SweepSteps == {1, 7, MaxSweepStep}
SweepHeight == InnerHeight + RawUnit

Seen(visited, section) ==
    IF visited # << >> /\ visited[Len(visited)] = section
    THEN visited
    ELSE Append(visited, section)

SweepMount ==
    /\ DoMountController(0, 0, SweepHeight, InnerHeight)
    /\ sweep' = [raw |-> 0, visited |-> Seen(<< >>, scrollState'.currentSection)]
    /\ UNCHANGED scene

SweepScroll ==
    /\ sweep.raw < RawUnit
    /\ \E step \in SweepSteps :
        LET r == IF sweep.raw + step > RawUnit THEN RawUnit ELSE sweep.raw + step
        IN  /\ DoScroll(r, -r, SweepHeight, InnerHeight)
            /\ sweep' = [raw |-> r, visited |-> Seen(sweep.visited, scrollState'.currentSection)]
            /\ UNCHANGED scene

SweepNext ==
    \/ MountExperience
    \/ SweepMount
    \/ SweepScroll

SpecSweep == Init /\ [][SweepNext]_vars

\* ------------------------------------------------------------------------
\* The mounted scene with its visibility drivers: rendered frames call the
\* useFrame callbacks of CameraController, of the ParticleSystem of the
\* eventX scene, of ConfettiParticles and of a FadeGroup.  (SpectraScene
\* mounts no FadeGroup; the component is modelled for a group placed at the
\* eventX depth.)  A frame delta is 1/60 s, or 10 s for the first frame
\* after the page was hidden.
\* ------------------------------------------------------------------------
MaxSceneTicks == 4                      \* useFrame callbacks run in a behaviour
SceneDeltas == {1, 600}                 \* frame delta, in sixtieths of a second
SceneOffsets == {0, 1560, 9640, 14010}  \* -rect.top: cameraZ 0, 750, 4400 and 6375

ParticleSystemProps == [zStart |-> 450, zEnd |-> 1050, baseOpacity |-> OpacityUnit \div 2]
ConfettiProps == [sceneZ |-> 6750, fadeRange |-> 450]
FadeGroupProps == [sceneZ |-> 750, fadeRange |-> 500]

SceneMount ==
    /\ \E s \in SceneOffsets : DoMountController(0, -s, SweepHeight, InnerHeight)
    /\ scene' = NoScene
    /\ UNCHANGED sweep

SceneScroll ==
    /\ \E dt \in ElapsedTimes, s \in SceneOffsets :
          /\ lastScrollTime + dt <= MaxTime
          /\ DoScroll(lastScrollTime + dt, -s, SweepHeight, InnerHeight)
    /\ UNCHANGED << sweep, scene >>

\* CameraController's useFrame callback in a rendered frame.
CameraFrame ==
    /\ scene.ticks < MaxSceneTicks
    /\ \E delta \in SceneDeltas : DoFrame(delta)
    /\ scene' = [scene EXCEPT !.ticks = @ + 1]
    /\ UNCHANGED frames

\* Mutant of ParticleSystemFrame: no return before the particle loop, which
\* runs in every frame.
ParticleSystemFrameUngated ==
    /\ stage = "live"
    /\ scene.ticks < MaxSceneTicks
    /\ \E delta \in SceneDeltas :
       \E opacity \in {smoothDamp(scene.particles.currentOpacity,
                                  ParticleTargetOpacity(camera.positionZ,
                                                        ParticleSystemProps.zStart,
                                                        ParticleSystemProps.zEnd,
                                                        ParticleSystemProps.baseOpacity),
                                  100, delta)} :
          scene' = [scene EXCEPT
                      !.particles = [currentOpacity |-> opacity,
                                     visible |-> FGt(opacity, Fin(Threshold001)),
                                     integrated |-> TRUE],
                      !.ticks = @ + 1]
    /\ UNCHANGED << handlerVars, currentVars, containerElement, camera, stage, frames,
                    probe, sweep, damp, fade, cinematic >>

\* ParticleSystem's useFrame callback: damp the opacity, set visible, and
\* integrate the particles unless the mesh is invisible.
ParticleSystemFrame ==
    /\ stage = "live"
    /\ scene.ticks < MaxSceneTicks
    /\ \E delta \in SceneDeltas :
       \E opacity \in {smoothDamp(scene.particles.currentOpacity,
                                  ParticleTargetOpacity(camera.positionZ,
                                                        ParticleSystemProps.zStart,
                                                        ParticleSystemProps.zEnd,
                                                        ParticleSystemProps.baseOpacity),
                                  100, delta)} :
          scene' = [scene EXCEPT
                      !.particles = [currentOpacity |-> opacity,
                                     visible |-> FGt(opacity, Fin(Threshold001)),
                                     integrated |-> FGt(opacity, Fin(Threshold001))],
                      !.ticks = @ + 1]
    /\ UNCHANGED << handlerVars, currentVars, containerElement, camera, stage, frames,
                    probe, sweep, damp, fade, cinematic >>

\* ConfettiParticles' useFrame callback: damp the opacity, then rewrite every
\* child's rotation, position and material opacity.
ConfettiFrame ==
    /\ stage = "live"
    /\ scene.ticks < MaxSceneTicks
    /\ \E delta \in SceneDeltas :
       \E opacity \in {smoothDamp(scene.confetti.currentOpacity,
                                  getSceneOpacity(camera.positionZ, ConfettiProps.sceneZ,
                                                  ConfettiProps.fadeRange),
                                  100, delta)} :
          scene' = [scene EXCEPT
                      !.confetti = [currentOpacity |-> opacity, rewrote |-> TRUE],
                      !.ticks = @ + 1]
    /\ UNCHANGED << handlerVars, currentVars, containerElement, camera, stage, frames,
                    probe, sweep, damp, fade, cinematic >>

\* Mutant of FadeGroupFrame: the visible flag is computed from the damped
\* opacity of the frame before.
FadeGroupFrameStaleVisible ==
    /\ stage = "live"
    /\ scene.ticks < MaxSceneTicks
    /\ \E delta \in SceneDeltas :
       \E opacity \in {smoothDamp(scene.fadeGroup.currentOpacity,
                                  getSceneOpacity(camera.positionZ, FadeGroupProps.sceneZ,
                                                  FadeGroupProps.fadeRange),
                                  120, delta)} :
          scene' = [scene EXCEPT
                      !.fadeGroup = [currentOpacity |-> opacity,
                                     visible |-> FGt(scene.fadeGroup.currentOpacity,
                                                     Fin(Threshold001)),
                                     traversed |-> TRUE],
                      !.ticks = @ + 1]
    /\ UNCHANGED << handlerVars, currentVars, containerElement, camera, stage, frames,
                    probe, sweep, damp, fade, cinematic >>

\* FadeGroup's useFrame callback: damp the opacity, traverse the group and
\* rewrite every material's opacity, then set visible.
FadeGroupFrame ==
    /\ stage = "live"
    /\ scene.ticks < MaxSceneTicks
    /\ \E delta \in SceneDeltas :
       \E opacity \in {smoothDamp(scene.fadeGroup.currentOpacity,
                                  getSceneOpacity(camera.positionZ, FadeGroupProps.sceneZ,
                                                  FadeGroupProps.fadeRange),
                                  120, delta)} :
          scene' = [scene EXCEPT
                      !.fadeGroup = [currentOpacity |-> opacity,
                                     visible |-> FGt(opacity, Fin(Threshold001)),
                                     traversed |-> TRUE],
                      !.ticks = @ + 1]
    /\ UNCHANGED << handlerVars, currentVars, containerElement, camera, stage, frames,
                    probe, sweep, damp, fade, cinematic >>

SceneNext ==
    \/ MountExperience
    \/ SceneMount
    \/ SceneScroll
    \/ CameraFrame
    \/ ParticleSystemFrame
    \/ ConfettiFrame
    \/ FadeGroupFrame

SpecScene == Init /\ [][SceneNext]_vars

\* ------------------------------------------------------------------------
\* getSceneOpacity on its own: a camera k above and k below a scene depth
\* ------------------------------------------------------------------------
MaxFadeOffset == 700                    \* the largest |cameraZ - sceneZ| tried
FadeStep == ZUnit \div 10               \* offsets are multiples of a tenth of a depth unit
FadeSceneDepths == {750, 6750}
FadeRanges == {400, 450, 500, 600, 650}

FadeInit ==
    /\ InitController
    /\ probe = NoProbe
    /\ sweep = NoSweep
    /\ scene = NoScene
    /\ damp = NoDamp
    /\ cinematic = NoCinematic
    /\ \E s \in FadeSceneDepths, f \in FadeRanges, j \in 0 .. MaxFadeOffset * 10 :
          fade = [NoFade EXCEPT !.sceneZ = s, !.fadeRange = f, !.k = j * FadeStep]

ApplyOpacity ==
    /\ ~fade.applied
    /\ fade' = [fade EXCEPT
                  !.above = getSceneOpacity(Fin(fade.sceneZ * ZUnit + fade.k),
                                            fade.sceneZ, fade.fadeRange),
                  !.below = getSceneOpacity(Fin(fade.sceneZ * ZUnit - fade.k),
                                            fade.sceneZ, fade.fadeRange),
                  !.applied = TRUE]
    /\ UNCHANGED << handlerVars, currentVars, containerElement, camera, stage, frames,
                    probe, sweep, scene, damp, cinematic >>

SpecOpacity == FadeInit /\ [][ApplyOpacity]_vars

\* ------------------------------------------------------------------------
\* smoothDamp on its own: each result is fed back as current, with a fixed
\* target, rate and delta.  Values are in steps of 1e-8.
\* ------------------------------------------------------------------------
MaxDampSteps == 500                     \* the iteration count stops at MaxDampSteps
DampUnit == 10000 * 10000               \* steps per unit of a damped value
DampStarts == {-DampUnit, 0, 7 * DampUnit}
DampTargets == {0, DampUnit}
DampRates == {40, 56, 100, 120, 1000, 2000, 5000}     \* smoothing, in thousandths
DampDeltas == {1, 2, 600}                             \* delta, in sixtieths of a second

DampInit ==
    /\ InitController
    /\ probe = NoProbe
    /\ sweep = NoSweep
    /\ scene = NoScene
    /\ fade = NoFade
    /\ cinematic = NoCinematic
    /\ \E c \in DampStarts, t \in DampTargets, r \in DampRates, d \in DampDeltas :
          damp = [current |-> Fin(c), previous |-> Fin(c), target |-> Fin(t),
                  smoothing |-> r, delta |-> d, start |-> Fin(c), steps |-> 0]

DampStep ==
    /\ damp' = [damp EXCEPT
                  !.previous = damp.current,
                  !.current = smoothDamp(damp.current, damp.target, damp.smoothing, damp.delta),
                  !.steps = IF @ < MaxDampSteps THEN @ + 1 ELSE @]
    /\ UNCHANGED << handlerVars, currentVars, containerElement, camera, stage, frames,
                    probe, sweep, scene, fade, cinematic >>

SpecDamp == DampInit /\ [][DampStep]_vars

\* ========================================================================
\* Claims
\* ========================================================================

\* C1: in every reachable state ScrollState.progress lies in [0, 1].
\* (Refuted by the code: a container with nothing to scroll, read at
\* rect.top = 0, makes progress NaN.)
ProgressInUnitInterval ==
    /\ IsFinite(scrollState.progress)
    /\ scrollState.progress.v >= 0
    /\ scrollState.progress.v <= PUnit

\* C2: in every reachable state cameraZ equals progress * 7000, and while
\* the controller exists (a handler invocation has set its ref) targetZ
\* equals cameraZ.
CameraZTracksProgress ==
    /\ scrollState.cameraZ.k = scrollState.progress.k
    /\ scrollState.cameraZ.v
         = scrollState.progress.v * ((TotalDepthRange * ZUnit) \div PUnit)
    /\ stage \in {"live", "closing"} => targetZ = scrollState.cameraZ

\* C2 witness: a handler invocation has moved the camera depth off 0.
CameraZTracksProgressWitness ==
    /\ stage = "live"
    /\ lastRead.handled
    /\ IsFinite(scrollState.cameraZ)
    /\ scrollState.cameraZ.v > 0
    /\ scrollState.progress.v > 0

\* C3: applyScrollPauses is non-decreasing: r1 <= r2 implies
\* applyScrollPauses(r1) <= applyScrollPauses(r2).
PausesMonotone ==
    (probe.applied /\ probe.r1 <= probe.r2)
        => /\ IsFinite(probe.a1) /\ IsFinite(probe.a2)
           /\ probe.a1.v <= probe.a2.v

\* C3 witness: r1 in the entering band of the first zone, r2 > r1 held at
\* the zone's center.
PausesMonotoneWitness ==
    /\ probe.applied
    /\ probe.r1 < probe.r2
    /\ probe.t1.zone = 1 /\ probe.t2.zone = 1
    /\ probe.a1.v < zoneProgressCenter(PAUSE_ZONES[1])
    /\ probe.a2.v = zoneProgressCenter(PAUSE_ZONES[1])

\* C4: applyScrollPauses(0) = 0 and applyScrollPauses(1) = 1; at raw
\* progress 1 every zone has been passed, accumulatedPause is the total
\* pause amount and the value comes from the final return.
EndpointsFixed ==
    probe.applied
        => /\ probe.r1 = 0 => probe.a1 = Fin(0)
           /\ probe.r2 = RawUnit
                => /\ probe.a2 = Fin(PUnit)
                   /\ probe.t2.zone = 0
                   /\ probe.t2.accumulatedPause = totalPauseAmount
                   /\ totalPauseAmount = 105 * (PUnit \div 1000)

\* C4 witness: both endpoints have been applied.
EndpointsFixedWitness ==
    /\ probe.applied
    /\ probe.r1 = 0
    /\ probe.r2 = RawUnit

\* x = rawProgress * effectiveScrollRange - accumulatedPause of r1 when the
\* loop examines zone i: the zones before i have been passed.
ProbeXAt(i) == ScaleRaw(probe.r1) - SumPause(i - 1)
ProbeX1 == ProbeXAt(1)

\* C5 as stated: when x equals zoneProgressCenter of the zone at 750,
\* applyScrollPauses returns zoneProgressCenter.
CenterMapsToCenter ==
    (probe.applied /\ ProbeX1 = zoneProgressCenter(PAUSE_ZONES[1]))
        => probe.a1 = Fin(zoneProgressCenter(PAUSE_ZONES[1]))

\* C5 amended: when x equals zoneProgressCenter of the zone at 750 the scan
\* is still in the entering band and returns pauseStart + 0.3 * 0.01 =
\* zoneProgressCenter - 0.007; zoneProgressCenter is returned for x in
\* [zoneProgressCenter + 0.0005, zoneProgressCenter + 0.0145].
CenterStillEntering ==
    LET zc == zoneProgressCenter(PAUSE_ZONES[1])
    IN  probe.applied
            => /\ ProbeX1 = zc => probe.a1 = Fin(zc - 7 * (PUnit \div 1000))
               /\ (ProbeX1 >= zc + 5 * (PUnit \div 10000)
                     /\ ProbeX1 <= zc + 145 * (PUnit \div 10000))
                    => probe.a1 = Fin(zc)

\* C5 witness: x is exactly the center of the zone at 750.
CenterStillEnteringWitness ==
    /\ probe.applied
    /\ probe.t1.zone = 1
    /\ ProbeX1 = zoneProgressCenter(PAUSE_ZONES[1])

\* C6: when x lies in zone i's band, with d = x - pauseStart and
\* w = pauseAmount + 0.02, the loop returns from zone i (later zones are not
\* scanned) with pauseStart + 0.3 d if d < 0.3 w, zoneProgressCenter if
\* 0.3 w <= d <= 0.7 w, and zoneProgressCenter + 0.01 (d - 0.7 w) / (0.3 w)
\* if d > 0.7 w.  (0.01 / (0.3 * 0.035) = 20 / 21.)
BandFormula ==
    probe.applied =>
        \A i \in 1 .. Len(PAUSE_ZONES) :
            LET zc == PAUSE_ZONES[i].center * (PUnit \div TotalDepthRange)
                ps == zc - PUnit \div 100
                w == PAUSE_ZONES[i].pauseAmount + 2 * (PUnit \div 100)
                x == ScaleRaw(probe.r1) - (i - 1) * PauseAmount015
                d == x - ps
                out == probe.a1.v
            IN  (x >= ps /\ x <= ps + w)
                    => /\ probe.t1.zone = i
                       /\ 10 * d < 3 * w => 10 * (out - ps) = 3 * d
                       /\ (10 * d >= 3 * w /\ 10 * d <= 7 * w) => out = zc
                       /\ 10 * d > 7 * w => 210 * (out - zc) = 20 * (10 * d - 7 * w)

\* C6 witness: r1 on the band's 0.3 w boundary of one zone, r2 in the
\* exiting band of a zone.
BandFormulaWitness ==
    /\ probe.applied
    /\ probe.t1.zone = 3
    /\ 10 * (ProbeXAt(3) - pauseStart(PAUSE_ZONES[3]))
         = 3 * (pauseEnd(PAUSE_ZONES[3]) - pauseStart(PAUSE_ZONES[3]))
    /\ probe.t2.zone # 0
    /\ probe.a2.v > zoneProgressCenter(PAUSE_ZONES[probe.t2.zone])

\* The ordered breakpoint table: << upper bound, section >>.
SectionTable ==
    << << 500, "portal" >>, << 1000, "eventX" >>, << 1500, "vortex" >>,
       << 2000, "battle" >>, << 2500, "curtain" >>, << 3000, "spotlight" >>,
       << 3500, "paintTunnel" >>, << 4000, "mural" >>, << 4500, "dollyZoom" >>,
       << 5000, "unveil" >>, << 5500, "falling" >>, << 6000, "beatTheStreet" >>,
       << 6500, "glitch" >> >>

\* The name of the first table entry whose upper bound exceeds z, else parody.
FirstExceeding(z) ==
    LET above == {i \in 1 .. Len(SectionTable) :
                    ~IsNaN(z) /\ z.v < SectionTable[i][1] * (PUnit \div TotalDepthRange)}
    IN  IF above = {}
        THEN "parody"
        ELSE SectionTable[CHOOSE i \in above : \A j \in above : i <= j][2]

\* C7: in every reachable state currentSection is the name of the first
\* breakpoint whose upper bound exceeds cameraZ, else parody; cameraZ 499
\* gives portal and cameraZ 500 gives eventX.
SectionFromTable ==
    /\ scrollState.currentSection = FirstExceeding(scrollState.cameraZ)
    /\ scrollState.cameraZ = Fin(499 * (PUnit \div TotalDepthRange))
         => scrollState.currentSection = "portal"
    /\ scrollState.cameraZ = Fin(500 * (PUnit \div TotalDepthRange))
         => scrollState.currentSection = "eventX"

\* C7 witness: a scroll has put the camera exactly on the breakpoint 500.
SectionFromTableWitness ==
    /\ lastRead.handled
    /\ scrollState.cameraZ = Fin(500 * (PUnit \div TotalDepthRange))
    /\ scrollState.currentSection = "eventX"

SectionOrder ==
    << "portal", "eventX", "vortex", "battle", "curtain", "spotlight",
       "paintTunnel", "mural", "dollyZoom", "unveil", "falling",
       "beatTheStreet", "glitch", "parody" >>

\* C8: in a forward sweep whose steps are shorter than a section, the
\* sections seen (repeats collapsed) are a prefix of SectionOrder at every
\* moment, and all of SectionOrder once raw progress has reached 1.
SweepVisitsInOrder ==
    /\ Len(sweep.visited) <= Len(SectionOrder)
    /\ sweep.visited = SubSeq(SectionOrder, 1, Len(sweep.visited))
    /\ sweep.raw = RawUnit => sweep.visited = SectionOrder

\* C8 witness: the sweep has reached raw progress 1.
SweepVisitsInOrderWitness ==
    /\ stage = "live"
    /\ sweep.raw = RawUnit
    /\ scrollState.progress = Fin(PUnit)
    /\ Len(sweep.visited) = 14

\* C9: when the scrollable distance is zero, a handled scroll leaves
\* progress 0 and cameraZ 0 whatever the scrolled offset.
\* (Refuted by the code: 0 / 0 is NaN and n / 0 clamps to 1.)
ZeroDistanceGivesZero ==
    (lastRead.handled /\ lastRead.offsetHeight - lastRead.innerHeight = 0)
        => /\ scrollState.progress = Fin(0)
           /\ scrollState.cameraZ = Fin(0)

\* C10: the camera transform written by the frame tick is finite.
\* (Refuted by the code: the NaN of C9 reaches targetZ and the next frame
\* tick writes it to camera.position.z.)
CameraTransformFinite ==
    /\ IsFinite(camera.positionZ)
    /\ IsFinite(camera.positionY)
    /\ IsFinite(camera.fov)
    /\ IsFinite(camera.rotationZ)

\* A step in which handleScroll ran to its end: the container is set, the
\* listener is registered afterwards, and the step is no frame tick.
HandledScroll ==
    /\ containerElement = "div"
    /\ stage' = "live"
    /\ frames' = frames
    /\ scene' = scene

\* C11 as stated: a handled scroll that observes zero elapsed time leaves
\* ScrollState.velocity at the value it had before.
\* (Refuted by the code: it stores 0.)
VelocityKeptAtZeroElapsed ==
    [][(HandledScroll /\ lastScrollTime' = lastScrollTime)
          => scrollState'.velocity = scrollState.velocity]_vars

\* C11 amended: a handled scroll that observes zero elapsed time sets
\* ScrollState.velocity to 0; otherwise velocity is (progress - lastProgress)
\* / delta t, delta t the elapsed milliseconds / 1000 (NaN when either
\* progress is NaN).
VelocityZeroAtZeroElapsed ==
    [][HandledScroll
          => LET elapsedMs == lastScrollTime' - lastScrollTime
                 diff == scrollState'.progress.v - lastProgress.v
             IN  /\ elapsedMs = 0 => scrollState'.velocity = Fin(0)
                 /\ elapsedMs > 0
                      => scrollState'.velocity
                           = IF IsNaN(scrollState'.progress) \/ IsNaN(lastProgress)
                             THEN NaN
                             ELSE Fin(Sign(diff)
                                      * ((Abs(diff) \div elapsedMs) * 1000
                                         + ((Abs(diff) % elapsedMs) * 1000) \div elapsedMs))]_vars

\* C11 witness: a scroll handled with zero elapsed time, after the clock has
\* moved and the progress has left 0, has stored velocity 0.
VelocityZeroAtZeroElapsedWitness ==
    /\ stage = "live"
    /\ lastRead.handled
    /\ lastRead.elapsedMs = 0
    /\ lastScrollTime > 0
    /\ IsFinite(scrollState.progress)
    /\ scrollState.progress.v > 0
    /\ scrollState.velocity = Fin(0)

\* The camera depth of the last handled scroll lies in [low, high].
DepthWithin(low, high) ==
    /\ IsFinite(scrollState.cameraZ)
    /\ scrollState.cameraZ.v >= low * ZUnit
    /\ scrollState.cameraZ.v <= high * ZUnit

\* C12 as stated: after a scroll event targetY is 0 for every cameraZ
\* outside [5100, 5400], and -500 * easeInOutCubic((cameraZ - 5100) / 300)
\* inside.
\* (Refuted by the code: past 5400 the target stays at -500.)
YBaselineOutsideWindow ==
    (stage = "live" /\ lastRead.handled)
        => IF DepthWithin(5100, 5400)
           THEN targetY = Fin(-500 * easeInOutCubic(
                                ((scrollState.cameraZ.v - 5100 * ZUnit) * EaseUnit)
                                    \div (300 * ZUnit)))
           ELSE targetY = Fin(0)

\* C12 amended: after a scroll event targetY is 0 for every cameraZ below
\* 5100, -500 * easeInOutCubic((cameraZ - 5100) / 300) inside [5100, 5400],
\* and -500 for every cameraZ above 5400.
YStaysDownPastWindow ==
    (stage = "live" /\ lastRead.handled /\ IsFinite(scrollState.cameraZ))
        => /\ scrollState.cameraZ.v < 5100 * ZUnit => targetY = Fin(0)
           /\ DepthWithin(5100, 5400)
                => targetY = Fin(-500 * easeInOutCubic(
                                    ((scrollState.cameraZ.v - 5100 * ZUnit) * EaseUnit)
                                        \div (300 * ZUnit)))
           /\ scrollState.cameraZ.v > 5400 * ZUnit => targetY = Fin(-500 * DegUnit)

\* C12 witness: a scroll has put the camera past the falling window.
YStaysDownPastWindowWitness ==
    /\ stage = "live"
    /\ lastRead.handled
    /\ IsFinite(scrollState.cameraZ)
    /\ scrollState.cameraZ.v > 5400 * ZUnit
    /\ targetY = Fin(-500 * DegUnit)

\* C13: after a scroll event targetFov is 50 for every cameraZ outside
\* (4100, 4700) and targetRotationZ is 0 for every cameraZ outside
\* (6300, 6600); inside, targetFov stays in [50, 80] and is 80 at cameraZ
\* 4400, targetRotationZ stays in [0, 2 pi] and is 2 pi at cameraZ 6450.
WindowsRevertToBaseline ==
    (stage = "live" /\ lastRead.handled /\ IsFinite(scrollState.cameraZ))
        => LET z == scrollState.cameraZ.v
           IN  /\ IsFinite(targetFov) /\ IsFinite(targetRotationZ)
               /\ (z <= 4100 * ZUnit \/ z >= 4700 * ZUnit) => targetFov.v = 50 * DegUnit
               /\ (z > 4100 * ZUnit /\ z < 4700 * ZUnit)
                    => targetFov.v >= 50 * DegUnit /\ targetFov.v <= 80 * DegUnit
               /\ z = 4400 * ZUnit => targetFov.v = 80 * DegUnit
               /\ (z <= 6300 * ZUnit \/ z >= 6600 * ZUnit) => targetRotationZ.v = 0
               /\ (z > 6300 * ZUnit /\ z < 6600 * ZUnit)
                    => targetRotationZ.v >= 0 /\ targetRotationZ.v <= TwoPi
               /\ z = 6450 * ZUnit => targetRotationZ.v = TwoPi

\* C13 witness: a scroll has put the camera at the peak of the dolly zoom.
WindowsRevertToBaselineWitness ==
    /\ stage = "live"
    /\ lastRead.handled
    /\ scrollState.cameraZ = Fin(4400 * ZUnit)
    /\ targetFov = Fin(80 * DegUnit)

\* C14: only the scroll handler changes ScrollState: a step that changes
\* progress, cameraZ, currentSection or velocity is a handled scroll, and
\* every useFrame callback (the controller's and each scene driver's) leaves
\* ScrollState as it was.
SingleWriter ==
    [][/\ scrollState' # scrollState => HandledScroll
       /\ scene'.ticks # scene.ticks => scrollState' = scrollState]_vars

\* C14 witness: the handler has moved ScrollState, the controller's frame
\* tick has moved the camera and a scene driver has run, with ScrollState
\* still what the handler wrote.
SingleWriterWitness ==
    /\ stage = "live"
    /\ scene.ticks >= 2
    /\ scene.confetti.rewrote
    /\ IsFinite(camera.positionZ)
    /\ camera.positionZ.v > 0
    /\ camera.positionZ # scrollState.cameraZ
    /\ scrollState.cameraZ = targetZ
    /\ scrollState.cameraZ.v > 0

\* C15: once the controller has unmounted its scroll listener is released:
\* while no controller is mounted (the experience unmounted, or mounted
\* again with its canvas not yet committed) no step, scroll events included,
\* changes ScrollState or a camera target.
ListenerReleased ==
    [][(stage \in {"unmounted", "shell"} /\ stage' # "live")
          => UNCHANGED << scrollState, targetZ, targetY, targetFov, targetRotationZ >>]_vars

\* C15 witness: a controller has handled scrolls and has unmounted, and the
\* experience is mounted again with the container set: a listener left
\* behind would run here.
ListenerReleasedWitness ==
    /\ stage = "shell"
    /\ containerElement = "div"
    /\ lastRead.handled
    /\ lastScrollTime < MaxTime
    /\ IsFinite(scrollState.progress)
    /\ scrollState.progress.v > 0

\* C16: when the experience has unmounted, and at the start of a later
\* mount, ScrollState holds its initial values.
\* (Refuted by the code: nothing resets the module-level object.)
ScrollStateTornDown ==
    stage \in {"unmounted", "shell"}
        => scrollState = [progress |-> Fin(0), cameraZ |-> Fin(0),
                          currentSection |-> "portal", velocity |-> Fin(0)]

\* C17: for every scene driver, a frame that leaves its damped opacity
\* below 0.01 does not execute the per-element work of that frame.
\* (Refuted by the code: ConfettiParticles and FadeGroup rewrite their
\* children in every frame.)
InvisibleScenesSkipWork ==
    /\ FLt(scene.particles.currentOpacity, Fin(Threshold001)) => ~scene.particles.integrated
    /\ FLt(scene.confetti.currentOpacity, Fin(Threshold001)) => ~scene.confetti.rewrote
    /\ FLt(scene.fadeGroup.currentOpacity, Fin(Threshold001)) => ~scene.fadeGroup.traversed

DampNeverOvershoots ==
    (damp.steps > 0 /\ damp.delta > 0 /\ damp.smoothing > 0 /\ damp.smoothing <= 2000)
        => /\ IsFinite(damp.current)
           /\ damp.previous.v <= damp.target.v
                => damp.previous.v <= damp.current.v /\ damp.current.v <= damp.target.v
           /\ damp.previous.v >= damp.target.v
                => damp.target.v <= damp.current.v /\ damp.current.v <= damp.previous.v
           /\ Abs(damp.target.v - damp.current.v) <= Abs(damp.target.v - damp.previous.v)

\* C19 witness: a step at rate 2 that has moved strictly toward a target
\* below it without reaching it.
DampNeverOvershootsWitness ==
    /\ damp.steps > 0
    /\ damp.smoothing = 2000
    /\ damp.delta = 1
    /\ damp.target.v < damp.current.v
    /\ damp.current.v < damp.previous.v

\* C20: with a fixed target, rate and delta, smoothDamp fed back on itself
\* is within 1e-6 of the target after at most 20 / (rate * delta * 60)
\* iterations, from a start up to 7 away, and stays within 1e-6 afterwards.
DampConverges ==
    (damp.steps * damp.smoothing * damp.delta >= 20 * 1000)
        => /\ IsFinite(damp.current)
           /\ Abs(damp.target.v - damp.current.v) <= DampUnit \div (1000 * 1000)

\* C20 witness: the slowest rate, started 7 away from the target, has run
\* to the iteration bound.
DampConvergesWitness ==
    /\ damp.smoothing = 40
    /\ damp.delta = 1
    /\ damp.start = Fin(7 * DampUnit)
    /\ damp.target = Fin(0)
    /\ damp.steps = MaxDampSteps
    /\ damp.current.v <= DampUnit \div (1000 * 1000)

\* The zones whose band test (x >= pauseStart && x <= pauseEnd) accepts the
\* raw progress r1 of the probe, each with the accumulatedPause the loop has
\* when it examines that zone.
ClaimingZones == {i \in 1 .. Len(PAUSE_ZONES) :
                    /\ ProbeXAt(i) >= pauseStart(PAUSE_ZONES[i])
                    /\ ProbeXAt(i) <= pauseEnd(PAUSE_ZONES[i])}

\* C21: PAUSE_ZONES is strictly ascending by center, the pauseEnd of each
\* zone is strictly below the pauseStart of the next one, and at most one
\* zone claims any raw progress value: the zone the loop returned from is
\* the only one whose band test accepts it.
ZonesAscendingDisjoint ==
    /\ \A i \in 1 .. Len(PAUSE_ZONES) - 1 :
          /\ PAUSE_ZONES[i].center < PAUSE_ZONES[i + 1].center
          /\ pauseEnd(PAUSE_ZONES[i]) < pauseStart(PAUSE_ZONES[i + 1])
    /\ probe.applied
          => /\ Cardinality(ClaimingZones) <= 1
             /\ ClaimingZones = IF probe.t1.zone = 0 THEN {} ELSE {probe.t1.zone}

\* C21 witness: a raw progress claimed by the zone at 3750 and by no other.
ZonesAscendingDisjointWitness ==
    /\ probe.applied
    /\ probe.t1.zone = 4
    /\ ClaimingZones = {4}

\* The adjusted progress that the container geometry of the last handled
\* scroll event gives, whatever came before that event.
ProgressOfLastRead ==
    applyScrollPauses(RawProgress(-lastRead.top, lastRead.offsetHeight - lastRead.innerHeight))

\* C22: while the controller is mounted, progress, cameraZ, currentSection
\* and the four targets are a function of the container geometry of the
\* last handled scroll event alone: every history that ends with an event
\* at that geometry leaves the same values (velocity is not constrained).
TargetsFollowGeometry ==
    (lastRead.handled /\ stage \in {"live", "closing"})
        => \E progress \in {ProgressOfLastRead} :
           \E z \in {TimesDepthRange(progress)} :
              /\ scrollState.progress = progress
              /\ scrollState.cameraZ = z
              /\ scrollState.currentSection = SectionOf(z)
              /\ targetZ = z
              /\ targetY = YTarget(z)
              /\ targetFov = FovTarget(z)
              /\ targetRotationZ = RotationTarget(z)

\* C22 witness: an event at the top of the container (depth 0) whose
\* velocity is negative, so the history before it ended at a deeper
\* position; the targets are the ones of depth 0 all the same.
TargetsFollowGeometryWitness ==
    /\ stage = "live"
    /\ lastRead.handled
    /\ lastRead.top = 0
    /\ lastRead.offsetHeight = InnerHeight + RawUnit
    /\ FLt(scrollState.velocity, Fin(0))
    /\ targetZ = Fin(0)
    /\ targetY = Fin(0)

\* 1.105 * (r2 - r1) of the probe, in PUnit steps: effectiveScrollRange is
\* 1.105, so this is the distance of the two scaled raw values.
ScaledRawGap == ScaleRaw(probe.r2) - ScaleRaw(probe.r1)

\* The scaled raw value at which zone i leaves its entering band for the
\* holding band (distFromStart = 0.3 * zoneWidth), the earlier zones passed.
HoldStart(i) ==
    pauseStart(PAUSE_ZONES[i])
        + ((pauseEnd(PAUSE_ZONES[i]) - pauseStart(PAUSE_ZONES[i])) * 3) \div 10
        + SumPause(i - 1)

\* The zones whose holding band starts after r1 and at or before r2.
HoldsEntered == {i \in 1 .. Len(PAUSE_ZONES) :
                    ScaleRaw(probe.r1) < HoldStart(i) /\ HoldStart(i) <= ScaleRaw(probe.r2)}

\* The step from the end of the entering band, pauseStart + 0.3 * 0.3 *
\* zoneWidth, up to zoneProgressCenter: 0.01 - 0.09 * 0.035 = 0.00685.
HoldJump == ZoneMargin - (((((PauseAmount015 + 2 * ZoneMargin) * 3) \div 10) * 3) \div 10)

\* C23 as stated: for r1 < r2, applyScrollPauses(r2) - applyScrollPauses(r1)
\* is at most 1.105 * (r2 - r1).
AdvanceWithinScaledRaw ==
    (probe.applied /\ probe.r1 < probe.r2)
        => probe.a2.v - probe.a1.v <= ScaledRawGap

\* C23 amended: for r1 < r2, applyScrollPauses(r2) - applyScrollPauses(r1) is
\* at most 1.105 * (r2 - r1) plus 0.00685 for every zone whose holding band
\* starts in (r1, r2]: the value steps forward there, from the end of the
\* entering band to zoneProgressCenter, and at no other band boundary.
AdvanceWithinScaledRawAndJumps ==
    (probe.applied /\ probe.r1 < probe.r2)
        => /\ IsFinite(probe.a1) /\ IsFinite(probe.a2)
           /\ probe.a2.v - probe.a1.v <= ScaledRawGap + HoldJump * Cardinality(HoldsEntered)

\* C23 witness: two neighbouring raw values around the start of the holding
\* band of the zone at 750; the value steps by more than the scaled raw gap.
AdvanceWithinScaledRawAndJumpsWitness ==
    /\ probe.applied
    /\ probe.r2 = probe.r1 + 1
    /\ HoldsEntered = {1}
    /\ probe.t1.zone = 1
    /\ probe.a2 = Fin(zoneProgressCenter(PAUSE_ZONES[1]))
    /\ probe.a2.v - probe.a1.v > ScaledRawGap

\* C24: a ParticleSystem frame that leaves the damped opacity not greater
\* than 0.01 marks the mesh invisible and returns before the particle loop
\* (no particle position, no instance matrix is written), and the damped
\* opacity of that frame is the smoothDamp value all the same.
ParticlesSkipWhenInvisible ==
    [][(scene'.ticks = scene.ticks + 1 /\ scene'.particles # scene.particles
          /\ ~FGt(scene'.particles.currentOpacity, Fin(Threshold001)))
          => /\ ~scene'.particles.visible
             /\ ~scene'.particles.integrated
             /\ \E delta \in SceneDeltas :
                   scene'.particles.currentOpacity
                      = smoothDamp(scene.particles.currentOpacity,
                                   ParticleTargetOpacity(camera.positionZ,
                                                         ParticleSystemProps.zStart,
                                                         ParticleSystemProps.zEnd,
                                                         ParticleSystemProps.baseOpacity),
                                   100, delta)]_vars

\* C24 witness: the camera has left the particles' range after they had
\* been visible, and the frame after that has damped the opacity down to 0
\* and has skipped the particle loop.
ParticlesSkipWhenInvisibleWitness ==
    /\ stage = "live"
    /\ scene.ticks = 4
    /\ FGt(camera.positionZ, Depth(1050))
    /\ scene.particles = [currentOpacity |-> Fin(0), visible |-> FALSE, integrated |-> FALSE]

\* ------------------------------------------------------------------------
\* CinematicScrollExperience: the scroll handler of its CameraController and
\* the animation-frame loop of its Lenis instance
\* ------------------------------------------------------------------------
MaxCinematicMounts == 2                 \* mounts of CinematicScrollExperience in a behaviour
CinematicMaxScroll == 7500              \* scrollHeight - innerHeight: one pixel per depth unit
\* window.scrollY: the top, the dolly-zoom peak, between the windows, inside
\* and past the glitch spin, inside the finale windows, the bottom
CinematicScrollYs == {0, 4400, 6000, 6400, 6500, 7300, CinematicMaxScroll}

\* Math.min(scrollY / maxScroll, 1), in PUnit steps.
CinematicProgress(scrollY, maxScroll) ==
    IF maxScroll = 0
    THEN IF scrollY = 0 THEN NaN ELSE Fin(PUnit)
    ELSE MathMin(Fin(MulDiv(PUnit, scrollY, maxScroll)), Fin(PUnit))

\* progress * 7500: PUnit steps of progress to ZUnit steps of depth.
CinematicDepth(progress) ==
    IF IsNaN(progress)
    THEN NaN
    ELSE Fin(MulDiv(progress.v, 7500, TotalDepthRange))

CinematicSectionOf(z) ==
    IF FLt(z, Depth(500)) THEN "portal"
    ELSE IF FLt(z, Depth(1000)) THEN "eventX"
    ELSE IF FLt(z, Depth(1500)) THEN "vortex"
    ELSE IF FLt(z, Depth(2000)) THEN "battle"
    ELSE IF FLt(z, Depth(2500)) THEN "curtain"
    ELSE IF FLt(z, Depth(3000)) THEN "spotlight"
    ELSE IF FLt(z, Depth(3500)) THEN "paintTunnel"
    ELSE IF FLt(z, Depth(4000)) THEN "mural"
    ELSE IF FLt(z, Depth(4500)) THEN "dollyZoom"
    ELSE IF FLt(z, Depth(5000)) THEN "unveil"
    ELSE IF FLt(z, Depth(5500)) THEN "falling"
    ELSE IF FLt(z, Depth(6000)) THEN "beatTheStreet"
    ELSE IF FLt(z, Depth(6500)) THEN "glitch"
    ELSE IF FLt(z, Depth(7000)) THEN "parody"
    ELSE "finale"

\* "Dolly zoom FOV adjustment (Z: 4100-4400)": no branch assigns for z at
\* or above 6300 (nor for a NaN z), where targetFov keeps its value.
CinematicDollyFov(z, previous) ==
    IF FGe(z, Depth(4100)) /\ FLe(z, Depth(4400))
    THEN Fin(50 * DegUnit + 35 * WindowFraction(z, 4100, 300))
    ELSE IF FLt(z, Depth(4100))
         THEN Fin(50 * DegUnit)
         ELSE IF FGt(z, Depth(4400)) /\ FLt(z, Depth(6300))
              THEN Fin(50 * DegUnit)
              ELSE previous

\* "Hyperspace FOV for finale (Z: 7200-7400)", after the dolly-zoom branch:
\* below 7200 targetFov keeps what it has.
CinematicFovTarget(z, previous) ==
    IF FGe(z, Depth(7200)) /\ FLe(z, Depth(7400))
    THEN Fin(50 * DegUnit + 40 * WindowFraction(z, 7200, 200))
    ELSE IF FGt(z, Depth(7400))
         THEN Fin(50 * DegUnit)
         ELSE CinematicDollyFov(z, previous)

\* "Falling Y movement (Z: 5100-5400)" and the rise for the finale.
CinematicYTarget(z) ==
    IF FGe(z, Depth(5100)) /\ FLe(z, Depth(5400))
    THEN Fin(-500 * WindowFraction(z, 5100, 300))
    ELSE IF FGt(z, Depth(5400)) /\ FLt(z, Depth(7200))
         THEN Fin(-500 * DegUnit)
         ELSE IF FGe(z, Depth(7200))
              THEN Fin(-500 * DegUnit
                         + 500 * (IF WindowFraction(z, 7200, 300) > EaseUnit
                                  THEN EaseUnit
                                  ELSE WindowFraction(z, 7200, 300)))
              ELSE Fin(0)

\* "Glitch spin (Z: 6300-6450)": no branch assigns below 6300, where
\* targetRotationZ keeps its value.
CinematicRotationTarget(z, previous) ==
    IF FGe(z, Depth(6300)) /\ FLe(z, Depth(6450))
    THEN Fin((WindowFraction(z, 6300, 150) * TwoPi) \div EaseUnit)
    ELSE IF FGt(z, Depth(6450))
         THEN Fin(0)
         ELSE previous

\* One invocation of the controller's handleScroll with window.scrollY and
\* scrollHeight - innerHeight as read by the handler.
CinematicHandleScroll(c, scrollY, maxScroll) ==
    LET progress == CinematicProgress(scrollY, maxScroll)
        z == CinematicDepth(progress)
    IN  [c EXCEPT !.scrollState = [progress |-> progress, cameraZ |-> z,
                                   currentSection |-> CinematicSectionOf(z)],
                  !.targetZ = z,
                  !.targetFov = CinematicFovTarget(z, c.targetFov),
                  !.targetY = CinematicYTarget(z),
                  !.targetRotationZ = CinematicRotationTarget(z, c.targetRotationZ)]

CinematicUnchanged ==
    UNCHANGED << handlerVars, currentVars, containerElement, camera, stage, frames,
                 probe, sweep, scene, damp, fade >>

\* CinematicScrollExperience's effect: a Lenis instance is created and its
\* raf loop is started with requestAnimationFrame.
CinematicMount ==
    /\ cinematic.stage = "unmounted"
    /\ cinematic.lenisCreated < MaxCinematicMounts
    /\ cinematic' = [cinematic EXCEPT !.stage = "shell", !.lenisCreated = @ + 1]
    /\ CinematicUnchanged

\* The canvas commits CameraController: fresh target refs, the scroll
\* listener and the initial handleScroll().
CinematicMountController ==
    /\ cinematic.stage = "shell"
    /\ \E scrollY \in CinematicScrollYs :
          cinematic' = CinematicHandleScroll(
                          [cinematic EXCEPT !.stage = "live",
                                            !.targetZ = Fin(0), !.targetY = Fin(0),
                                            !.targetFov = Fin(50 * DegUnit),
                                            !.targetRotationZ = Fin(0)],
                          scrollY, CinematicMaxScroll)
    /\ CinematicUnchanged

\* A scroll event reaches the controller's listener.
CinematicScrollEvent ==
    /\ cinematic.stage = "live"
    /\ \E scrollY \in CinematicScrollYs :
          cinematic' = CinematicHandleScroll(cinematic, scrollY, CinematicMaxScroll)
    /\ CinematicUnchanged

\* An animation frame runs raf(time) of one of the loops: lenis.raf(time) on
\* the instance the loop was created with, then requestAnimationFrame(raf)
\* again.  No loop is ever cancelled, so every instance created so far has
\* its loop pending.
CinematicRaf ==
    /\ \E i \in 1 .. cinematic.lenisCreated :
          cinematic' = [cinematic EXCEPT
                          !.lastRaf = [instance |-> i,
                                       destroyed |-> i <= cinematic.lenisDestroyed]]
    /\ CinematicUnchanged

\* Unmount: CameraController's cleanup removes the scroll listener and the
\* experience's cleanup calls lenis.destroy() on its instance.
CinematicUnmount ==
    /\ cinematic.stage \in {"shell", "live"}
    /\ cinematic' = [cinematic EXCEPT !.stage = "unmounted",
                                      !.lenisDestroyed = cinematic.lenisCreated]
    /\ CinematicUnchanged

CinematicNext ==
    \/ CinematicMount
    \/ CinematicMountController
    \/ CinematicScrollEvent
    \/ CinematicRaf
    \/ CinematicUnmount

SpecCinematic == Init /\ [][CinematicNext]_vars

\* C25: after CinematicScrollExperience has unmounted none of its
\* animation-frame callbacks runs: no raf callback calls lenis.raf on an
\* instance that has been destroyed.  (Refuted by the code: the loop is
\* never cancelled.)
RafLoopStopsAtUnmount == ~cinematic.lastRaf.destroyed

\* The targets that a controller mounted directly at the depth z computes:
\* the values of the history that consists of that one event.
CinematicTargetsAt(z) ==
    [targetFov |-> CinematicFovTarget(z, Fin(50 * DegUnit)),
     targetY |-> CinematicYTarget(z),
     targetRotationZ |-> CinematicRotationTarget(z, Fin(0))]

\* C26: in CinematicScrollExperience's controller targetFov, targetY and
\* targetRotationZ after a scroll event are determined by the event's
\* cameraZ alone, so they equal the targets of a controller mounted at that
\* position.  (Refuted by the code: some depths assign no targetFov and no
\* targetRotationZ.)
CinematicTargetsFollowDepth ==
    cinematic.stage = "live"
        => [targetFov |-> cinematic.targetFov,
            targetY |-> cinematic.targetY,
            targetRotationZ |-> cinematic.targetRotationZ]
              = CinematicTargetsAt(cinematic.scrollState.cameraZ)

Within(x, low, high) == IsFinite(x) /\ low <= x.v /\ x.v <= high

\* C27: with a container that has a positive scrollable distance and frame
\* deltas above 0, under every interleaving of scroll events and frame
\* ticks the damped scalars and the camera stay inside the hull of the
\* targets: z in [0, 7000], y in [-500, 0], fov in [50, 80] and rotation z
\* in [0, 2 pi].
CameraWithinTargetHull ==
    /\ Within(currentZ, 0, TotalDepthRange * ZUnit)
    /\ Within(camera.positionZ, 0, TotalDepthRange * ZUnit)
    /\ Within(currentY, -500 * DegUnit, 0)
    /\ Within(camera.positionY, -500 * DegUnit, 0)
    /\ Within(currentFov, 50 * DegUnit, 80 * DegUnit)
    /\ Within(camera.fov, 50 * DegUnit, 80 * DegUnit)
    /\ Within(currentRotationZ, 0, TwoPi)
    /\ Within(camera.rotationZ, 0, TwoPi)

\* C27 witness: frames between scroll events have left every damped scalar
\* strictly inside its range, on the way to targets the handler has since
\* moved: the camera is past the dolly zoom, below the baseline, rotated and
\* with a widened field of view.
CameraWithinTargetHullWitness ==
    /\ stage = "live"
    /\ scene.ticks >= 3
    /\ camera.positionZ.v > 4400 * ZUnit /\ camera.positionZ.v < TotalDepthRange * ZUnit
    /\ camera.positionY.v < 0 /\ camera.positionY.v > -500 * DegUnit
    /\ camera.fov.v > 50 * DegUnit /\ camera.fov.v < 80 * DegUnit
    /\ camera.rotationZ.v > 0 /\ camera.rotationZ.v < TwoPi

\* C28: while the controller is mounted, a scroll event (a step that is not
\* a frame tick) leaves currentZ, currentY, currentFov, currentRotationZ and
\* the camera transform unchanged; the camera transform changes only in a
\* frame tick; and a frame tick leaves the four targets unchanged.
ScrollAndFrameWriteApart ==
    [][(stage \in {"live", "closing"} /\ stage' \in {"live", "closing"})
          => /\ frames' = frames => UNCHANGED << currentVars, camera >>
             /\ camera' # camera => frames' = frames + 1
             /\ frames' # frames
                   => UNCHANGED << targetZ, targetY, targetFov, targetRotationZ >>]_vars

\* C28 witness: frames have moved the camera toward a deeper target, and a
\* later scroll event has put the target back at 0 with the camera and the
\* damped depth left where the frames put them.
ScrollAndFrameWriteApartWitness ==
    /\ stage = "live"
    /\ frames = MaxFrames
    /\ targetZ = Fin(0)
    /\ lastRead.top = 0
    /\ IsFinite(camera.positionZ)
    /\ camera.positionZ.v > 0
    /\ camera.positionZ = currentZ

\* C29: a scroll event handled while no container element is registered is
\* a no-op: the invocation returns at its container test and progress,
\* cameraZ, currentSection, velocity, lastScrollTime, lastProgress and the
\* four targets keep their values.
NoContainerNoOp ==
    [][(containerElement = "null" /\ lastRead'.returnedEarly /\ ~lastRead.returnedEarly)
          => UNCHANGED << scrollState, lastScrollTime, lastProgress,
                          targetZ, targetY, targetFov, targetRotationZ >>]_vars

\* C29 witness: the experience has released the container while the
\* listener is still registered, and a scroll event has returned at the
\* container test with the values of the last handled event still in place.
NoContainerNoOpWitness ==
    /\ stage = "closing"
    /\ containerElement = "null"
    /\ lastRead.returnedEarly
    /\ lastRead.handled
    /\ IsFinite(scrollState.cameraZ)
    /\ scrollState.cameraZ.v > 0
    /\ targetZ = scrollState.cameraZ
    /\ FGt(scrollState.velocity, Fin(0))

\* C30: with a finite camera depth, a FadeGroup's damped opacity stays in
\* [0, 1]; after each of its frames its visible flag is true exactly when
\* the damped opacity is strictly greater than 0.01; and its opacity and
\* flag change only in its own frame tick, a step that leaves the scroll
\* handler's state, the camera and the other drivers' refs as they were.
FadeGroupBoundedAndGated ==
    [][/\ Within(scene'.fadeGroup.currentOpacity, 0, OpacityUnit)
       /\ scene'.fadeGroup.traversed
             => (scene'.fadeGroup.visible
                    <=> FGt(scene'.fadeGroup.currentOpacity, Fin(Threshold001)))
       /\ scene'.fadeGroup # scene.fadeGroup
             => /\ scene'.ticks = scene.ticks + 1
                /\ scene'.fadeGroup.traversed
                /\ scene'.particles = scene.particles
                /\ scene'.confetti = scene.confetti
                /\ UNCHANGED << handlerVars, currentVars, camera >>]_vars

\* C30 witness: a FadeGroup frame with the camera inside the fade range has
\* left the opacity strictly between 0.01 and 1, the group visible; the
\* particles' driver has run as well and is at another opacity.
FadeGroupBoundedAndGatedWitness ==
    /\ stage = "live"
    /\ scene.fadeGroup.traversed
    /\ scene.fadeGroup.visible
    /\ scene.fadeGroup.currentOpacity.v > Threshold001
    /\ scene.fadeGroup.currentOpacity.v < OpacityUnit
    /\ scene.particles.integrated
    /\ scene.particles.currentOpacity # scene.fadeGroup.currentOpacity

====
